---- MODULE Spec2Model ----
(***************************************************************************)
(* Model of clickhousePandasWrapper.Insert (src/clickhousePandasWrapper/   *)
(* insert.py): the type mapper, the create-table and range-clean           *)
(* generators, schema synchronisation and the insertDataInClickhouse       *)
(* orchestrator with its two retry paths, run against a ClickHouse server  *)
(* that holds one database with one table and may fail any statement.      *)
(***************************************************************************)
EXTENDS Integers, Sequences, FiniteSets, TLC

VARIABLES
    dbExists,               \* server: the target database exists
    tableExists,            \* server: the target table exists
    tableCols,              \* server: the table's column names, in order
    tableRows,              \* server: the table's rows, in insertion order
    df,                     \* argument df: [cols, rows]
    cleanDataInDateRange,   \* argument cleanDataInDateRange
    cleanDataWhereColumns,  \* argument cleanDataWhereColumns (a list)
    columnTypeMap,          \* self.columnTypeMap
    pc,                     \* position inside insertDataInClickhouse
    retryCounter,           \* argument retryCounter of the running invocation
    result,                 \* outcome of the top-level call
    toAdd,                  \* syncTableSchema: dataset columns still to visit
    log,                    \* statements handed to the client in this call
    faults,                 \* failures the server injected so far
    repeated,               \* the call has been issued a second time
    firstResult,            \* outcome of the first of the two calls
    atCall,                 \* server state when the running call started
    tmName, tmType, tmOut   \* type mapper harness: inputs and output

vars == <<dbExists, tableExists, tableCols, tableRows, df, cleanDataInDateRange,
          cleanDataWhereColumns, columnTypeMap, pc, retryCounter, result, toAdd,
          log, faults, repeated, firstResult, atCall, tmName, tmType, tmOut>>

serverVars == <<dbExists, tableExists, tableCols, tableRows>>
argVars == <<df, cleanDataInDateRange, cleanDataWhereColumns, columnTypeMap>>
tmVars == <<tmName, tmType, tmOut>>

----------------------------------------------------------------------------
(* Bounds *)

\* longest dataset (rows)
MaxRows == 2
\* failures the server may inject in one run, besides those its state causes
MaxFaults == 2

----------------------------------------------------------------------------
(* Program constants *)

UNKNOWN_DATABASE == 81
NO_SUCH_COLUMN_IN_TABLE == 16

\* defaults of insertDataInClickhouse's parameters
partitionByTable == "date"
partitionByFunction == "toYYYYMM"

\* module-level columnTypeMap, the constructor's default
DefaultColumnTypeMap == [c \in {"Date", "date"} |-> "DateTime64(3)"]

----------------------------------------------------------------------------
(* Helpers *)

Range(s) == {s[i] : i \in 1..Len(s)}

Count(s, r) == Cardinality({i \in 1..Len(s) : s[i] = r})

Min(S) == CHOOSE x \in S : \A y \in S : x <= y
Max(S) == CHOOSE x \in S : \A y \in S : x >= y

\* Python's str() of a non-negative integer: its decimal digits
RECURSIVE Str(_)
Str(n) == IF n < 10 THEN <<n>> ELSE Append(Str(n \div 10), n % 10)

\* the server's reading of a quoted literal compared with a numeric column
RECURSIVE ParseLiteral(_)
ParseLiteral(s) ==
    IF Len(s) = 0 THEN 0
    ELSE 10 * ParseLiteral(SubSeq(s, 1, Len(s) - 1)) + s[Len(s)]

----------------------------------------------------------------------------
(* The dataset (pandas DataFrame) *)

ColNames == {"date", "src", "val"}

\* pandas dtype of each column
Dtype(c) ==
    CASE c = "date" -> "datetime64[ns]"
      [] c = "src"  -> "int64"
      [] OTHER      -> "float64"

\* values a column takes; 0 is the server's default for a column not given
ColValues(c) ==
    CASE c = "date" -> {2, 10}
      [] c = "src"  -> {1, 2}
      [] OTHER      -> {1}

RowsOver(cols) ==
    {r \in [ColNames -> 0..10] :
        \A c \in ColNames : r[c] \in (IF c \in Range(cols) THEN ColValues(c) ELSE {0})}

DfLayouts == {<<"date", "src">>, <<"src", "date", "val">>, <<"src", "val">>}

SeqsUpTo(S, n) == UNION {[1..k -> S] : k \in 0..n}

Datasets ==
    UNION {{[cols |-> cols, rows |-> rows] : rows \in SeqsUpTo(RowsOver(cols), MaxRows)}
           : cols \in DfLayouts}

----------------------------------------------------------------------------
(* Type mapper *)

\* the mapping dict of pandasToClickhouseType
BuiltinMapping ==
    [t \in {"int32", "int64", "float32", "float64", "object"} |->
        CASE t = "int32"   -> "Int32"
          [] t = "int64"   -> "Int64"
          [] t = "float32" -> "Float32"
          [] t = "float64" -> "Float64"
          [] OTHER         -> "String"]

\* a mapper in which the semantic type is looked up before the column name
TypeBeforeName(typeMap, columnName, pandasType) ==
    IF pandasType \in DOMAIN BuiltinMapping THEN BuiltinMapping[pandasType]
    ELSE IF columnName \in DOMAIN typeMap THEN typeMap[columnName]
    ELSE "String"

pandasToClickhouseType(typeMap, columnName, pandasType) ==
    IF columnName \in DOMAIN typeMap
    THEN typeMap[columnName]
    ELSE IF pandasType \in DOMAIN BuiltinMapping
         THEN BuiltinMapping[pandasType]
         ELSE "String"

----------------------------------------------------------------------------
(* DDL generator *)

\* a generator that emits the column definitions in reverse order
CreateReversed(typeMap, d, partitionBy, orderBy) ==
    [defs |-> [i \in 1..Len(d.cols) |->
                  <<d.cols[Len(d.cols) + 1 - i],
                    pandasToClickhouseType(typeMap, d.cols[Len(d.cols) + 1 - i],
                                           Dtype(d.cols[Len(d.cols) + 1 - i]))>>],
     partitionBy |-> partitionBy,
     orderBy |-> orderBy]

\* the CREATE TABLE IF NOT EXISTS statement: one `name type` pair per dataset
\* column in df.dtypes order, the partition expression and the order expression
generateCreateTableQuery(typeMap, d, partitionBy, orderBy) ==
    [defs |-> [i \in 1..Len(d.cols) |->
                  <<d.cols[i], pandasToClickhouseType(typeMap, d.cols[i], Dtype(d.cols[i]))>>],
     partitionBy |-> partitionBy,
     orderBy |-> orderBy]

----------------------------------------------------------------------------
(* Range-clean generator *)

\* generateAlterQuery returning False
NoQuery == [ok |-> FALSE, col |-> "", from |-> <<>>, to |-> <<>>, eqs |-> <<>>]

\* df[c]
Column(d, c) == [i \in 1..Len(d.rows) |-> d.rows[i][c]]

\* df[c].unique(), as the set of its values
Unique(d, c) == Range(Column(d, c))

\* a loop that fails on a predicate column the dataset lacks
WhereLoopMissingFails(d, keys) ==
    IF \A k \in Range(keys) : k \in Range(d.cols) /\ Cardinality(Unique(d, k)) = 1
    THEN [ok |-> TRUE, eqs |-> [i \in 1..Len(keys) |-> <<keys[i], Str(Column(d, keys[i])[1])>>]]
    ELSE [ok |-> FALSE, eqs |-> <<>>]

\* the loop over cleanDataWhereColumns: the clauses appended, or a failure
WhereLoop(d, keys) ==
    LET F[i \in 0..Len(keys)] ==
            IF i = 0 THEN [ok |-> TRUE, eqs |-> <<>>]
            ELSE LET prev == F[i - 1]
                     key  == keys[i]
                 IN  IF ~prev.ok THEN prev
                     ELSE IF key \notin Range(d.cols) THEN prev          \* continue
                     ELSE IF Cardinality(Unique(d, key)) # 1
                          THEN [ok |-> FALSE, eqs |-> <<>>]                \* return False
                          ELSE [ok |-> TRUE,
                                eqs |-> Append(prev.eqs,
                                               <<key, Str(Column(d, key)[1])>>)]
    IN  F[Len(keys)]

\* a generator that bounds the range by the minimum on both sides
AlterMinOnly(d, partitionCol, keys) ==
    IF partitionCol \notin Range(d.cols) \/ Len(d.rows) = 0 THEN NoQuery
    ELSE LET w == WhereLoop(d, keys)
         IN  IF ~w.ok \/ (Len(keys) > 0 /\ Len(w.eqs) = 0) THEN NoQuery
             ELSE [ok |-> TRUE, col |-> partitionCol,
                   from |-> Str(Min(Unique(d, partitionCol))),
                   to |-> Str(Min(Unique(d, partitionCol))),
                   eqs |-> w.eqs]

\* a generator that scopes by the first value of a predicate column whose
\* values differ
AlterFirstValue(d, partitionCol, keys) ==
    IF partitionCol \notin Range(d.cols) \/ Len(d.rows) = 0 THEN NoQuery
    ELSE LET present == SelectSeq(keys, LAMBDA k : k \in Range(d.cols))
         IN  IF Len(keys) > 0 /\ Len(present) = 0 THEN NoQuery
             ELSE [ok |-> TRUE, col |-> partitionCol,
                   from |-> Str(Min(Unique(d, partitionCol))),
                   to |-> Str(Max(Unique(d, partitionCol))),
                   eqs |-> [i \in 1..Len(present) |->
                               <<present[i], Str(Column(d, present[i])[1])>>]]

\* the ALTER TABLE ... DELETE statement, or NoQuery
generateAlterQuery(d, partitionCol, keys) ==
    IF partitionCol \notin Range(d.cols) \/ Len(d.rows) = 0
    THEN NoQuery                         \* min()/max() raised
    ELSE LET w == WhereLoop(d, keys)
         IN  IF ~w.ok THEN NoQuery
             ELSE IF Len(keys) > 0 /\ Len(w.eqs) = 0 THEN NoQuery
             ELSE [ok |-> TRUE, col |-> partitionCol,
                   from |-> Str(Min(Unique(d, partitionCol))),
                   to |-> Str(Max(Unique(d, partitionCol))),
                   eqs |-> w.eqs]

----------------------------------------------------------------------------
(* Schema synchronisation: the columns syncTableSchema adds *)

\* a synchroniser that adds every dataset column, present or not
EveryColumn(d, columnNames) == d.cols

\* a synchroniser that finds nothing to add
NothingMissing(d, columnNames) == <<>>

\* dataset columns, in df.dtypes order, not among the described column names
MissingColumns(d, columnNames) ==
    SelectSeq(d.cols, LAMBDA c : c \notin Range(columnNames))

----------------------------------------------------------------------------
(* The retry budget *)

\* a budget that allows a second recursion
RetryExhaustedAtTwo(counter) == counter >= 2

\* a budget that allows no recursion at all
RetryNeverAllowed(counter) == counter >= 0

\* `if retryCounter >= 1: raise`
RetryExhausted(counter) == counter >= 1

----------------------------------------------------------------------------
(* The two codes the program inspects, and the choice of the preparation step *)

\* a check that takes every failed listing for a missing database
AnyListingFailure(code) == code # 0

\* `if e.code == 81` in the except branch of the listing
DatabaseMissing(code) == code = UNKNOWN_DATABASE

\* a check that takes every failed bulk insert for a schema drift
AnyInsertFailure(code) == code # 0

\* `if e.code == 16` in the except branch of the bulk insert
ColumnMissing(code) == code = NO_SUCH_COLUMN_IN_TABLE

\* a choice that cleans whenever the table is listed, whatever the flag
CleanWheneverListed(listed, clean) == IF listed THEN "clean" ELSE "create"

\* `if tableExists: if cleanDataInDateRange: ... else: (create)`: the step
\* that follows a successful listing
StepAfterListing(listed, clean) ==
    IF listed
    THEN IF clean THEN "clean" ELSE "insert"
    ELSE "create"

----------------------------------------------------------------------------
(* The ClickHouse server behind self.ch *)

\* codes the server may answer with whatever its state: the two the program
\* inspects and one it does not (210, NETWORK_ERROR)
FaultCodes == {UNKNOWN_DATABASE, NO_SUCH_COLUMN_IN_TABLE, 210}

\* codes the server's state causes besides the two above
ServerCode == [unknownIdentifier |-> 47, unknownTable |-> 60, duplicateColumn |-> 15]

\* the client's own error for a query that is not a string; it carries no code
NotAQuery == -1

\* the codes a statement may end with: 0 (success) or the failure its state
\* causes, or an injected failure while the budget lasts
Codes(natural) == {natural} \cup (IF faults < MaxFaults THEN FaultCodes ELSE {})

Injected(natural, code) == IF code = natural THEN 0 ELSE 1

\* SHOW TABLES FROM db
NaturalShowTables == IF dbExists THEN 0 ELSE UNKNOWN_DATABASE

\* ALTER TABLE ... DELETE WHERE col BETWEEN 'from' AND 'to' AND `k` = 'v' ...
QueryColumns(q) == {q.col} \cup {q.eqs[i][1] : i \in 1..Len(q.eqs)}

NaturalDelete(q) ==
    IF ~dbExists THEN UNKNOWN_DATABASE
    ELSE IF ~tableExists THEN ServerCode.unknownTable
    ELSE IF QueryColumns(q) \subseteq Range(tableCols) THEN 0
    ELSE ServerCode.unknownIdentifier

Matches(q, r) ==
    /\ ParseLiteral(q.from) <= r[q.col]
    /\ r[q.col] <= ParseLiteral(q.to)
    /\ \A i \in 1..Len(q.eqs) : r[q.eqs[i][1]] = ParseLiteral(q.eqs[i][2])

RowsAfterDelete(q, rows) == SelectSeq(rows, LAMBDA r : ~Matches(q, r))

\* CREATE TABLE IF NOT EXISTS ... PARTITION BY (f(col)) ORDER BY col
DefNames(q) == [i \in 1..Len(q.defs) |-> q.defs[i][1]]

NaturalCreate(q) ==
    IF ~dbExists THEN UNKNOWN_DATABASE
    ELSE IF tableExists THEN 0
    ELSE IF {q.partitionBy[2], q.orderBy} \subseteq Range(DefNames(q)) THEN 0
    ELSE ServerCode.unknownIdentifier

\* INSERT INTO db.table (cols) VALUES
NaturalInsert(cols) ==
    IF ~dbExists THEN UNKNOWN_DATABASE
    ELSE IF ~tableExists THEN ServerCode.unknownTable
    ELSE IF Range(cols) \subseteq Range(tableCols) THEN 0
    ELSE NO_SUCH_COLUMN_IN_TABLE

\* DESCRIBE TABLE db.table
NaturalDescribe ==
    IF ~dbExists THEN UNKNOWN_DATABASE
    ELSE IF ~tableExists THEN ServerCode.unknownTable
    ELSE 0

\* ALTER TABLE db.table ADD COLUMN `c` type
NaturalAddColumn(c) ==
    IF ~dbExists THEN UNKNOWN_DATABASE
    ELSE IF ~tableExists THEN ServerCode.unknownTable
    ELSE IF c \in Range(tableCols) THEN ServerCode.duplicateColumn
    ELSE 0

Entry(op, code, arg) == [op |-> op, rc |-> retryCounter, code |-> code, arg |-> arg]

----------------------------------------------------------------------------
(* insertDataInClickhouse *)

Snapshot ==
    [db |-> dbExists, table |-> tableExists, cols |-> tableCols, rows |-> tableRows,
     faults |-> faults]

\* entry into the top-level invocation (retryCounter = 0)
Enter ==
    /\ pc' = "list"
    /\ retryCounter' = 0
    /\ result' = "none"
    /\ toAdd' = <<>>
    /\ log' = <<>>
    /\ atCall' = Snapshot
    /\ UNCHANGED <<serverVars, argVars, faults, tmVars>>

Call ==
    /\ pc = "idle"
    /\ Enter
    /\ UNCHANGED <<repeated, firstResult>>

\* the caller, after a call that returned True, issues the same call again
Repeat ==
    /\ pc = "done"
    /\ result = "true"
    /\ ~repeated
    /\ repeated' = TRUE
    /\ firstResult' = result
    /\ Enter

\* return False / return True / raise
Finish(r) ==
    /\ pc' = "done"
    /\ result' = r
    /\ UNCHANGED retryCounter

\* what a failing recovery action (createDatabase, syncTableSchema) does
SwallowRecoveryFailure == "false"

RecoveryFailureIgnored == "true"

OnRecoveryFailure == "raised"

\* after the recovery action: `if retryCounter >= 1: raise ... else: return
\* self.insertDataInClickhouse(..., retryCounter = retryCounter+1)`
Retry ==
    IF RetryExhausted(retryCounter)
    THEN Finish("raised")
    ELSE /\ pc' = "list"
         /\ retryCounter' = retryCounter + 1
         /\ UNCHANGED result

\* tables = self.ch.execute('SHOW TABLES FROM db') and its except branch
ShowTables ==
    /\ pc = "list"
    /\ \E code \in Codes(NaturalShowTables) :
        /\ faults' = faults + Injected(NaturalShowTables, code)
        /\ log' = Append(log, Entry("list", code, code = 0 /\ tableExists))
        /\ IF code = 0
           THEN /\ pc' = StepAfterListing(tableExists, cleanDataInDateRange)
                /\ UNCHANGED <<retryCounter, result>>
           ELSE IF DatabaseMissing(code)
           THEN /\ pc' = "createdb"
                /\ UNCHANGED <<retryCounter, result>>
           ELSE Finish("false")
    /\ UNCHANGED <<serverVars, argVars, toAdd, repeated, firstResult, atCall, tmVars>>

\* self.createDatabase(db), then the retry check
CreateDatabase ==
    /\ pc = "createdb"
    /\ \E code \in Codes(0) :
        /\ faults' = faults + Injected(0, code)
        /\ log' = Append(log, Entry("createdb", code, FALSE))
        /\ IF code = 0
           THEN /\ dbExists' = TRUE
                /\ Retry
           ELSE /\ UNCHANGED dbExists
                /\ Finish(OnRecoveryFailure)
    /\ UNCHANGED <<tableExists, tableCols, tableRows, argVars, toAdd, repeated,
                   firstResult, atCall, tmVars>>

\* the cleanDataInDateRange branch: generateAlterQuery, self.ch.execute(alterTable)
CleanData ==
    /\ pc = "clean"
    /\ LET alterTable == generateAlterQuery(df, partitionByTable, cleanDataWhereColumns)
       IN  IF ~alterTable.ok
           THEN \* False is handed to execute, which raises on it
                /\ log' = Append(log, Entry("execute", NotAQuery, alterTable))
                /\ Finish("false")
                /\ UNCHANGED <<tableRows, faults>>
           ELSE \E code \in Codes(NaturalDelete(alterTable)) :
                /\ faults' = faults + Injected(NaturalDelete(alterTable), code)
                /\ log' = Append(log, Entry("delete", code, alterTable))
                /\ IF code = 0
                   THEN /\ tableRows' = RowsAfterDelete(alterTable, tableRows)
                        /\ pc' = "insert"
                        /\ UNCHANGED <<retryCounter, result>>
                   ELSE /\ UNCHANGED tableRows
                        /\ Finish("false")
    /\ UNCHANGED <<dbExists, tableExists, tableCols, argVars, toAdd, repeated,
                   firstResult, atCall, tmVars>>

\* the else branch: generateCreateTableQuery, self.ch.execute(query)
CreateTable ==
    /\ pc = "create"
    /\ LET query == generateCreateTableQuery(columnTypeMap, df,
                        <<partitionByFunction, partitionByTable>>, partitionByTable)
       IN  \E code \in Codes(NaturalCreate(query)) :
            /\ faults' = faults + Injected(NaturalCreate(query), code)
            /\ log' = Append(log, Entry("create", code, query))
            /\ IF code = 0
               THEN /\ IF tableExists
                       THEN UNCHANGED <<tableExists, tableCols, tableRows>>
                       ELSE /\ tableExists' = TRUE
                            /\ tableCols' = DefNames(query)
                            /\ tableRows' = <<>>
                    /\ pc' = "insert"
                    /\ UNCHANGED <<retryCounter, result>>
               ELSE /\ UNCHANGED <<tableExists, tableCols, tableRows>>
                    /\ Finish("false")
    /\ UNCHANGED <<dbExists, argVars, toAdd, repeated, firstResult, atCall, tmVars>>

\* self.ch.insert_dataframe(insertString, df) and its except branch, up to the
\* call of syncTableSchema
InsertDataframe ==
    /\ pc = "insert"
    /\ \E code \in Codes(NaturalInsert(df.cols)) :
        /\ faults' = faults + Injected(NaturalInsert(df.cols), code)
        /\ log' = Append(log, Entry("insert", code, df.cols))
        /\ IF code = 0
           THEN /\ tableRows' = tableRows \o df.rows
                /\ Finish("true")
           ELSE IF ColumnMissing(code)
           THEN /\ pc' = "sync"
                /\ UNCHANGED <<tableRows, retryCounter, result>>
           ELSE /\ UNCHANGED tableRows
                /\ Finish("false")
    /\ UNCHANGED <<dbExists, tableExists, tableCols, argVars, toAdd, repeated,
                   firstResult, atCall, tmVars>>

\* syncTableSchema: DESCRIBE TABLE; with nothing to add, on to the retry check
DescribeTable ==
    /\ pc = "sync"
    /\ \E code \in Codes(NaturalDescribe) :
        /\ faults' = faults + Injected(NaturalDescribe, code)
        /\ log' = Append(log, Entry("describe", code, IF code = 0 THEN tableCols ELSE <<>>))
        /\ IF code = 0
           THEN /\ toAdd' = MissingColumns(df, tableCols)
                /\ IF toAdd' = <<>>
                   THEN Retry
                   ELSE /\ pc' = "addcol"
                        /\ UNCHANGED <<retryCounter, result>>
           ELSE /\ UNCHANGED toAdd
                /\ Finish(OnRecoveryFailure)
    /\ UNCHANGED <<serverVars, argVars, repeated, firstResult, atCall, tmVars>>

\* syncTableSchema: one ALTER TABLE ... ADD COLUMN of the loop; after the
\* last one, on to the retry check
AddColumn ==
    /\ pc = "addcol"
    /\ LET columnName == Head(toAdd)
           chType == pandasToClickhouseType(columnTypeMap, columnName, Dtype(columnName))
       IN  \E code \in Codes(NaturalAddColumn(columnName)) :
            /\ faults' = faults + Injected(NaturalAddColumn(columnName), code)
            /\ log' = Append(log, Entry("addcol", code, <<columnName, chType>>))
            /\ IF code = 0
               THEN /\ tableCols' = Append(tableCols, columnName)
                    /\ toAdd' = Tail(toAdd)
                    /\ IF toAdd' = <<>>
                       THEN Retry
                       ELSE /\ pc' = "addcol"
                            /\ UNCHANGED <<retryCounter, result>>
               ELSE /\ UNCHANGED <<tableCols, toAdd>>
                    /\ Finish(OnRecoveryFailure)
    /\ UNCHANGED <<dbExists, tableExists, tableRows, argVars, repeated, firstResult,
                   atCall, tmVars>>

----------------------------------------------------------------------------
(* Initial states *)

WhereLists == {<<>>, <<"src">>, <<"val">>, <<"val", "src">>}

TableLayouts == {<<"date", "src">>, <<"date", "src", "val">>, <<"date">>}

\* what the server holds before the first call
ServerStates ==
    {[db |-> FALSE, table |-> FALSE, cols |-> <<>>, rows |-> <<>>],
     [db |-> TRUE, table |-> FALSE, cols |-> <<>>, rows |-> <<>>]}
    \cup UNION {{[db |-> TRUE, table |-> TRUE, cols |-> cols, rows |-> rows]
                   : rows \in SeqsUpTo(RowsOver(cols), 1)} : cols \in TableLayouts}

TypeMapperIdle ==
    /\ tmName = "date"
    /\ tmType = "object"
    /\ tmOut = "unset"

Init ==
    /\ \E s \in ServerStates :
        /\ dbExists = s.db
        /\ tableExists = s.table
        /\ tableCols = s.cols
        /\ tableRows = s.rows
        /\ atCall = [db |-> s.db, table |-> s.table, cols |-> s.cols, rows |-> s.rows,
                     faults |-> 0]
    /\ df \in Datasets
    /\ cleanDataInDateRange \in BOOLEAN
    /\ cleanDataWhereColumns \in WhereLists
    /\ columnTypeMap = DefaultColumnTypeMap
    /\ pc = "idle"
    /\ retryCounter = 0
    /\ result = "none"
    /\ toAdd = <<>>
    /\ log = <<>>
    /\ faults = 0
    /\ repeated = FALSE
    /\ firstResult = "none"
    /\ TypeMapperIdle

Next ==
    \/ Call
    \/ Repeat
    \/ ShowTables
    \/ CreateDatabase
    \/ CleanData
    \/ CreateTable
    \/ InsertDataframe
    \/ DescribeTable
    \/ AddColumn

Spec == Init /\ [][Next]_vars

\* a step of a running call: every statement handed to the client returns or
\* raises, and the single thread then goes on
Step ==
    \/ ShowTables
    \/ CreateDatabase
    \/ CleanData
    \/ CreateTable
    \/ InsertDataframe
    \/ DescribeTable
    \/ AddColumn

FairSpec == Spec /\ WF_vars(Step)

----------------------------------------------------------------------------
(* The type mapper on its own *)

TypeMaps ==
    {DefaultColumnTypeMap,
     [c \in {"val", "date"} |-> IF c = "val" THEN "UInt8" ELSE "Date"],
     [c \in {} |-> "String"]}

PandasTypes == {"int32", "int64", "float32", "float64", "object", "datetime64[ns]", "bool"}

InitTypeMapper ==
    /\ dbExists = TRUE
    /\ tableExists = FALSE
    /\ tableCols = <<>>
    /\ tableRows = <<>>
    /\ atCall = [db |-> TRUE, table |-> FALSE, cols |-> <<>>, rows |-> <<>>, faults |-> 0]
    /\ df = [cols |-> <<"date">>, rows |-> <<>>]
    /\ cleanDataInDateRange = TRUE
    /\ cleanDataWhereColumns = <<>>
    /\ columnTypeMap \in TypeMaps
    /\ pc = "idle"
    /\ retryCounter = 0
    /\ result = "none"
    /\ toAdd = <<>>
    /\ log = <<>>
    /\ faults = 0
    /\ repeated = FALSE
    /\ firstResult = "none"
    /\ tmName \in {"date", "Date", "src", "val"}
    /\ tmType \in PandasTypes
    /\ tmOut = "unset"

\* chType = self.pandasToClickhouseType(columnName, dtype)
ResolveType ==
    /\ tmOut = "unset"
    /\ tmOut' = pandasToClickhouseType(columnTypeMap, tmName, tmType)
    /\ UNCHANGED <<serverVars, argVars, pc, retryCounter, result, toAdd, log, faults,
                   repeated, firstResult, atCall, tmName, tmType>>

NextTypeMapper == ResolveType

SpecTypeMapper == InitTypeMapper /\ [][NextTypeMapper]_vars

----------------------------------------------------------------------------
(* Vocabulary of the properties *)

Done == pc = "done"

Idx == 1..Len(log)

\* the i-th statement of the call was `op` and ended with `code`
Was(i, op, code) == log[i].op = op /\ log[i].code = code

Issued(op) == {i \in Idx : log[i].op = op}

\* no failure was injected during the running call: every failure in it is
\* one the server's state caused
NoInjectedFailure == faults = atCall.faults

\* a listing that succeeded and did not show the table
ListedAbsent(i) == Was(i, "list", 0) /\ ~log[i].arg

\* a listing that succeeded and showed the table
ListedPresent(i) == Was(i, "list", 0) /\ log[i].arg

\* statements i and j belong to the same invocation
SameInvocation(i, j) == \A k \in Idx : (i < k /\ k <= j) => log[k].op # "list"

\* some predicate column present in the dataset holds several distinct values
NonUniform ==
    \E k \in Range(cleanDataWhereColumns) :
        k \in Range(df.cols) /\ Cardinality(Unique(df, k)) > 1

\* the partition column is present and every predicate column holds exactly
\* one distinct value
Pinned ==
    /\ partitionByTable \in Range(df.cols)
    /\ \A k \in Range(cleanDataWhereColumns) :
        k \in Range(df.cols) /\ Cardinality(Unique(df, k)) = 1

\* the table holds each row of the batch as often as the batch does
OneCopy == \A r \in Range(df.rows) : Count(tableRows, r) = Count(df.rows, r)

----------------------------------------------------------------------------
(* C1 *)

\* C1: against a server whose SHOW TABLES always fails with UNKNOWN_DATABASE
\* and whose CREATE DATABASE succeeds, the call raises and CREATE DATABASE was
\* issued exactly once: none is issued at retry counter >= 1.
C1_OneCreateDatabase ==
    (/\ Done
     /\ \E i \in Idx : Was(i, "list", UNKNOWN_DATABASE) /\ log[i].rc >= 1
     /\ \A i \in Issued("list") : log[i].code = UNKNOWN_DATABASE
     /\ \A i \in Issued("createdb") : log[i].code = 0)
    => /\ result = "raised"
       /\ Cardinality(Issued("createdb")) = 1
       /\ \A i \in Issued("createdb") : log[i].rc = 0

----------------------------------------------------------------------------
(* C2 *)

\* the listing failed with UNKNOWN_DATABASE at retry counter 0 and a later
\* bulk insert of the call failed with NO_SUCH_COLUMN_IN_TABLE
BothConditions(i, j) ==
    /\ i < j
    /\ Was(i, "list", UNKNOWN_DATABASE) /\ log[i].rc = 0
    /\ Was(j, "insert", NO_SUCH_COLUMN_IN_TABLE)

\* C2 as stated: after a missing database was recovered, a schema drift in the
\* retried invocation is recovered too, by one more recursion (a further
\* listing follows the failed bulk insert) instead of a raise.
C2_IndependentBudgets ==
    \A i, j \in Idx :
        (/\ Done
         /\ BothConditions(i, j)
         /\ \A k \in Issued("createdb") \cup Issued("describe") \cup Issued("addcol") :
                log[k].code = 0)
        => /\ result # "raised"
           /\ \E k \in Issued("list") : k > j

\* C2 amended: the two recovery paths share one retry counter. A call makes
\* at most one recursion in total, and when a missing database was recovered
\* and the bulk insert of the retried invocation fails with
\* NO_SUCH_COLUMN_IN_TABLE, the call raises without recursing again.
C2_SharedBudget ==
    /\ retryCounter <= 1
    /\ Cardinality(Issued("list")) <= 2
    /\ \A i, j \in Idx :
        (Done /\ BothConditions(i, j))
        => /\ result = "raised"
           /\ \A k \in Issued("list") : k < j

C2_Witness ==
    /\ Done
    /\ result = "raised"
    /\ \E i, j \in Idx : BothConditions(i, j) /\ log[j].rc = 1
    /\ \A k \in Idx : k > 1 /\ log[k].op # "insert" => log[k].code = 0

----------------------------------------------------------------------------
(* C3 *)

\* C3: insert called twice in succession with the same dataset and cleanup,
\* the partition column present and every predicate column holding one
\* distinct value: when both calls succeed the table holds exactly one copy
\* of the batch's rows.
C3_Idempotent ==
    (/\ Done
     /\ repeated
     /\ firstResult = "true"
     /\ result = "true"
     /\ cleanDataInDateRange
     /\ Pinned)
    => OneCopy

C3_Witness ==
    /\ Done
    /\ repeated
    /\ firstResult = "true"
    /\ result = "true"
    /\ cleanDataInDateRange
    /\ Pinned
    /\ faults = 0
    /\ Len(cleanDataWhereColumns) > 0
    /\ Cardinality(Unique(df, partitionByTable)) = 2
    /\ Len(atCall.rows) > Len(df.rows)
    /\ \E i \in Idx : Was(i, "delete", 0)
    /\ OneCopy

----------------------------------------------------------------------------
(* C4 *)

NoDeleteNoInsert == Issued("delete") \cup Issued("insert") = {}

\* C4 as stated: whatever the server holds (table present or absent), cleanup
\* with a predicate column of several distinct values returns false without
\* any delete or bulk insert, the rows unchanged.
C4_RejectedInEveryState ==
    (Done /\ NoInjectedFailure /\ cleanDataInDateRange /\ NonUniform)
    => /\ result = "false"
       /\ NoDeleteNoInsert
       /\ tableRows = atCall.rows

\* C4 amended: cleanup is looked at only when the listing shows the table.
\* Then, with a predicate column of several distinct values, the invocation
\* returns false and issues neither a delete nor a bulk insert; a call that
\* finds the table at its first listing leaves the rows unchanged.
C4_RejectedWhenTableListed ==
    (cleanDataInDateRange /\ NonUniform)
    => /\ \A i \in Idx :
            (ListedPresent(i) /\ i < Len(log))
            => /\ Len(log) = i + 1
               /\ Was(i + 1, "execute", NotAQuery)
               /\ Done
               /\ result = "false"
       /\ (Done /\ Len(log) > 0 /\ ListedPresent(1))
            => /\ result = "false"
               /\ NoDeleteNoInsert
               /\ tableRows = atCall.rows

C4_Witness ==
    /\ Done
    /\ cleanDataInDateRange
    /\ NonUniform
    /\ ListedPresent(1)
    /\ result = "false"
    /\ Len(tableRows) > 0

----------------------------------------------------------------------------
(* C5 *)

\* C5: a top-level call on an existing table whose bulk insert at retry
\* counter 0 fails with NO_SUCH_COLUMN_IN_TABLE, nothing else failing but by
\* the server's state, returns true with every dataset column in the table's
\* schema and the batch's rows present exactly once (the table held none of
\* them, or cleanup removed them).
C5_SchemaDriftRecovered ==
    (/\ Done
     /\ atCall.table
     /\ NoInjectedFailure
     /\ \E i \in Idx : Was(i, "insert", NO_SUCH_COLUMN_IN_TABLE) /\ log[i].rc = 0)
    => /\ result = "true"
       /\ Range(df.cols) \subseteq Range(tableCols)
       /\ Range(atCall.cols) \subseteq Range(tableCols)
       /\ (cleanDataInDateRange \/ Range(df.rows) \cap Range(atCall.rows) = {})
            => OneCopy

C5_Witness ==
    /\ Done
    /\ result = "true"
    /\ atCall.table
    /\ NoInjectedFailure
    /\ \E i \in Idx : Was(i, "insert", NO_SUCH_COLUMN_IN_TABLE) /\ log[i].rc = 0
    /\ \E i \in Idx : Was(i, "addcol", 0)
    /\ ~(Range(df.cols) \subseteq Range(atCall.cols))
    /\ Len(df.rows) > 0
    /\ OneCopy

----------------------------------------------------------------------------
(* C6 *)

\* C6: a top-level call against a database that does not exist, with a dataset
\* that holds the partition column and nothing failing but by the server's
\* state, returns true; afterwards the database exists, the table exists with
\* the dataset's columns, and the batch's rows are in it.
C6_MissingDatabaseRecovered ==
    (/\ Done
     /\ ~atCall.db
     /\ NoInjectedFailure
     /\ partitionByTable \in Range(df.cols))
    => /\ result = "true"
       /\ dbExists
       /\ tableExists
       /\ tableCols = df.cols
       /\ tableRows = df.rows

C6_Witness ==
    /\ Done
    /\ ~atCall.db
    /\ NoInjectedFailure
    /\ result = "true"
    /\ Was(1, "list", UNKNOWN_DATABASE)
    /\ Was(2, "createdb", 0)
    /\ Len(tableRows) = MaxRows

----------------------------------------------------------------------------
(* C7 *)

\* one definition per dataset column, in the dataset's order, typed by the
\* type mapper
DefsOfDataset(defs) ==
    /\ Len(defs) = Len(df.cols)
    /\ \A k \in 1..Len(df.cols) :
        /\ defs[k][1] = df.cols[k]
        /\ defs[k][2] = pandasToClickhouseType(columnTypeMap, df.cols[k], Dtype(df.cols[k]))

\* C7: when a listing does not show the table, the next statement is a
\* CREATE TABLE with exactly one definition per dataset column, in dataset
\* order and typed by the type mapper; the invocation issues no delete, and
\* its bulk insert comes right after the successful create. A call that
\* returned true leaves the table existing, and with no failure but by the
\* server's state a call that found the table absent issues no delete at all.
C7_CreateThenInsert ==
    /\ \A i \in Idx :
        ListedAbsent(i)
        => /\ i < Len(log)
                => /\ log[i + 1].op = "create"
                   /\ log[i + 1].rc = log[i].rc
                   /\ DefsOfDataset(log[i + 1].arg.defs)
                   /\ log[i + 1].arg.partitionBy = <<partitionByFunction, partitionByTable>>
           /\ \A j \in Idx :
                (j > i /\ SameInvocation(i, j))
                => /\ log[j].op # "delete"
                   /\ log[j].op = "insert"
                        => /\ j = i + 2
                           /\ Was(i + 1, "create", 0)
                           /\ log[j].arg = df.cols
    /\ (Done /\ result = "true") => tableExists
    /\ (Done /\ NoInjectedFailure /\ \E i \in Idx : ListedAbsent(i))
        => Issued("delete") = {}

C7_Witness ==
    /\ Done
    /\ result = "true"
    /\ cleanDataInDateRange
    /\ Len(df.cols) = 3
    /\ Len(log) = 3
    /\ ListedAbsent(1)
    /\ Was(2, "create", 0)
    /\ Was(3, "insert", 0)
    /\ tableExists
    /\ tableCols = df.cols
    /\ Len(tableRows) = MaxRows

----------------------------------------------------------------------------
(* C8 *)

\* a recoverable condition recurred at retry counter >= 1
RecoverableRecurred ==
    \E i \in Idx :
        /\ log[i].rc >= 1
        /\ \/ Was(i, "list", UNKNOWN_DATABASE)
           \/ Was(i, "insert", NO_SUCH_COLUMN_IN_TABLE)

\* the call's last statement was a recovery action that failed
RecoveryFailed ==
    /\ Len(log) > 0
    /\ log[Len(log)].op \in {"createdb", "describe", "addcol"}
    /\ log[Len(log)].code # 0

\* C8 as stated: the call raises only when a recoverable condition recurs at
\* retry counter >= 1; a failed recovery action ends it with false.
C8_RaisesOnlyOnRecurrence ==
    Done => /\ result = "raised" => RecoverableRecurred
            /\ RecoveryFailed => result = "false"

\* C8 amended: the call raises exactly when a recoverable condition recurs at
\* retry counter >= 1 or a recovery action (create database, describe table,
\* add column) fails; every other failure of a statement ends it with false,
\* and it returns true exactly when its last statement, a bulk insert,
\* succeeded.
C8_RaisesOnRecurrenceOrFailedRecovery ==
    Done => /\ result \in {"true", "false", "raised"}
            /\ Len(log) > 0
            /\ result = "raised" <=> (RecoverableRecurred \/ RecoveryFailed)
            /\ result = "true" <=> Was(Len(log), "insert", 0)
            /\ result = "false"
                => /\ log[Len(log)].code # 0
                   /\ log[Len(log)].op \in {"list", "execute", "delete", "create", "insert"}

C8_Witness ==
    /\ Done
    /\ result = "raised"
    /\ retryCounter = 0
    /\ RecoveryFailed
    /\ ~RecoverableRecurred

----------------------------------------------------------------------------
(* C9 *)

\* C9: the type mapper returns the override map's entry whenever the column
\* name is one of its keys, whatever the semantic type; otherwise the built-in
\* entry of the semantic type, or String when it has none.
C9_NameBeforeType ==
    tmOut # "unset"
    => /\ tmName \in DOMAIN columnTypeMap => tmOut = columnTypeMap[tmName]
       /\ tmName \notin DOMAIN columnTypeMap
            => /\ tmType = "int32" => tmOut = "Int32"
               /\ tmType = "int64" => tmOut = "Int64"
               /\ tmType = "float32" => tmOut = "Float32"
               /\ tmType = "float64" => tmOut = "Float64"
               /\ tmType \notin {"int32", "int64", "float32", "float64"} => tmOut = "String"

C9_Witness ==
    /\ tmOut = "UInt8"
    /\ tmName = "val"
    /\ tmType = "int64"
    /\ "val" \in DOMAIN columnTypeMap

----------------------------------------------------------------------------
(* C10 *)

\* C10: DESCRIBE TABLE and ADD COLUMN are issued only at retry counter 0;
\* when the bulk insert fails with NO_SUCH_COLUMN_IN_TABLE at retry counter
\* >= 1 the call raises without synchronising the schema.
C10_NoSyncAfterRetry ==
    \A i \in Issued("describe") \cup Issued("addcol") : log[i].rc = 0

----------------------------------------------------------------------------
(* C11 *)

\* C11: when the listing shows the table, cleanup is requested and the
\* generation of the cleanup statement fails, the invocation returns false at
\* once: the failed generation result is never handed to the client's
\* execute, no recursion and no bulk insert follow.
C11_FailedGenerationNotExecuted ==
    \A i \in Idx :
        (/\ ListedPresent(i)
         /\ i < Len(log)
         /\ cleanDataInDateRange
         /\ ~generateAlterQuery(df, partitionByTable, cleanDataWhereColumns).ok)
        => /\ Done
           /\ result = "false"
           /\ \A j \in Idx : j > i => log[j].op \notin {"execute", "insert", "list"}

----------------------------------------------------------------------------
(* C12 *)

\* the i-th statement failed with a code the program takes as opaque
Opaque(i) ==
    /\ log[i].code # 0
    /\ \/ log[i].op = "list" /\ log[i].code # UNKNOWN_DATABASE
       \/ log[i].op \in {"delete", "create"}
       \/ log[i].op = "insert" /\ log[i].code # NO_SUCH_COLUMN_IN_TABLE

\* C12: a listing that fails with a code other than UNKNOWN_DATABASE, a delete
\* or create-table that fails with any code, or a bulk insert that fails with
\* a code other than NO_SUCH_COLUMN_IN_TABLE ends the call with false at that
\* statement: no recovery action, no recursion and no later statement follow.
C12_OpaqueFailureEndsCall ==
    \A i \in Idx :
        Opaque(i)
        => /\ i = Len(log)
           /\ Done
           /\ result = "false"
           /\ retryCounter = log[i].rc
           /\ \A j \in Idx : j < i /\ SameInvocation(j, i)
                => log[j].op \notin {"createdb", "describe", "addcol"}

C12_Witness ==
    /\ Done
    /\ result = "false"
    /\ Len(log) = 2
    /\ ListedPresent(1)
    /\ Was(2, "delete", UNKNOWN_DATABASE)
    /\ tableRows = atCall.rows
    /\ Len(tableRows) > 0

----------------------------------------------------------------------------
(* C13 *)

\* the predicate columns the dataset holds, in the order given
PresentKeys == SelectSeq(cleanDataWhereColumns, LAMBDA k : k \in Range(df.cols))

\* when the generation of the cleanup statement has to fail
GenerationFails ==
    \/ partitionByTable \notin Range(df.cols)
    \/ Len(df.rows) = 0
    \/ \E k \in Range(cleanDataWhereColumns) :
        k \in Range(df.cols) /\ Cardinality({df.rows[n][k] : n \in 1..Len(df.rows)}) # 1
    \/ /\ Len(cleanDataWhereColumns) > 0
       /\ \A k \in Range(cleanDataWhereColumns) : k \notin Range(df.cols)

\* q deletes where the partition column lies between the dataset's least and
\* greatest value, with one exact-match clause per present predicate column
ReferenceDelete(q) ==
    /\ q.col = partitionByTable
    /\ \A n \in 1..Len(df.rows) :
        /\ ParseLiteral(q.from) <= df.rows[n][partitionByTable]
        /\ df.rows[n][partitionByTable] <= ParseLiteral(q.to)
    /\ \E n \in 1..Len(df.rows) : df.rows[n][partitionByTable] = ParseLiteral(q.from)
    /\ \E n \in 1..Len(df.rows) : df.rows[n][partitionByTable] = ParseLiteral(q.to)
    /\ Len(q.eqs) = Len(PresentKeys)
    /\ \A n \in 1..Len(PresentKeys) :
        /\ q.eqs[n][1] = PresentKeys[n]
        /\ \A r \in 1..Len(df.rows) : df.rows[r][PresentKeys[n]] = ParseLiteral(q.eqs[n][2])

\* C13: the cleanup statement handed to the client is the reference one: the
\* generation fails iff the partition column's min/max cannot be computed, or
\* a present predicate column holds a number of distinct values other than
\* one, or the predicate list is non-empty and names only missing columns;
\* otherwise it is the delete between the dataset's min and max with one
\* exact-match clause per present predicate column, in the order given.
C13_RangeCleanReference ==
    \A i \in Idx :
        log[i].op \in {"delete", "execute"}
        => /\ log[i].arg.ok <=> ~GenerationFails
           /\ log[i].op = "delete" <=> log[i].arg.ok
           /\ log[i].arg.ok => ReferenceDelete(log[i].arg)

C13_Witness ==
    /\ cleanDataWhereColumns = <<"val", "src">>
    /\ "val" \notin Range(df.cols)
    /\ \E i \in Idx :
        /\ log[i].op = "delete"
        /\ log[i].arg.from # log[i].arg.to
        /\ Len(log[i].arg.eqs) = 1
        /\ log[i].arg.eqs[1][1] = "src"

----------------------------------------------------------------------------
(* C14 *)

\* the invocation of listing i issues no create-table / no delete
NoCreateInInvocation(i) ==
    \A j \in Idx : (j > i /\ SameInvocation(i, j)) => log[j].op # "create"

NoDeleteInInvocation(i) ==
    \A j \in Idx : (j > i /\ SameInvocation(i, j)) => log[j].op # "delete"

\* every bulk insert comes right after the preparation branch of its
\* invocation ended without failure
InsertAfterPreparation ==
    \A j \in Issued("insert") :
        /\ j > 1
        /\ \/ ListedPresent(j - 1) /\ ~cleanDataInDateRange
           \/ Was(j - 1, "delete", 0) /\ j > 2 /\ ListedPresent(j - 2)
           \/ Was(j - 1, "create", 0) /\ j > 2 /\ ListedAbsent(j - 2)

\* with cleanup off no row is ever deleted
CleanupOffKeepsRows ==
    ~cleanDataInDateRange
    => /\ Issued("delete") \cup Issued("execute") = {}
       /\ Len(atCall.rows) <= Len(tableRows)
       /\ SubSeq(tableRows, 1, Len(atCall.rows)) = atCall.rows

\* C14 as stated: after a successful listing, if the table is listed a delete
\* is executed iff cleanup is true and no create-table is issued; if it is not
\* listed a create-table with partition expression
\* partitionFunction(partitionColumn) is executed and no delete is issued; the
\* bulk insert is attempted only after that branch ended without failure, and
\* with cleanup off no row is deleted.
C14_DeleteIffCleanup ==
    /\ \A i \in Idx :
        (ListedPresent(i) /\ i < Len(log))
        => /\ cleanDataInDateRange <=> log[i + 1].op = "delete"
           /\ NoCreateInInvocation(i)
    /\ \A i \in Idx :
        (ListedAbsent(i) /\ i < Len(log))
        => /\ log[i + 1].op = "create"
           /\ log[i + 1].arg.partitionBy = <<partitionByFunction, partitionByTable>>
           /\ NoDeleteInInvocation(i)
    /\ InsertAfterPreparation
    /\ CleanupOffKeepsRows

\* C14 amended: as stated, except that with the table listed a delete is
\* executed iff cleanup is true and the generation of the cleanup statement
\* succeeded; when cleanup is true and the generation fails no delete is
\* executed and the invocation ends with false.
C14_DeleteIffCleanupGenerated ==
    /\ \A i \in Idx :
        (ListedPresent(i) /\ i < Len(log))
        => /\ (cleanDataInDateRange /\ ~GenerationFails) <=> log[i + 1].op = "delete"
           /\ log[i + 1].op = "delete"
                => log[i + 1].arg
                     = generateAlterQuery(df, partitionByTable, cleanDataWhereColumns)
           /\ (cleanDataInDateRange /\ GenerationFails)
                => /\ i + 1 = Len(log)
                   /\ log[i + 1].op = "execute"
                   /\ Done
                   /\ result = "false"
           /\ ~cleanDataInDateRange => log[i + 1].op = "insert"
           /\ NoCreateInInvocation(i)
    /\ \A i \in Idx :
        (ListedAbsent(i) /\ i < Len(log))
        => /\ log[i + 1].op = "create"
           /\ log[i + 1].arg.partitionBy = <<partitionByFunction, partitionByTable>>
           /\ NoDeleteInInvocation(i)
    /\ InsertAfterPreparation
    /\ CleanupOffKeepsRows

C14_Witness ==
    /\ Done
    /\ ~cleanDataInDateRange
    /\ Len(cleanDataWhereColumns) > 0
    /\ Len(log) = 2
    /\ ListedPresent(1)
    /\ Was(2, "insert", 0)
    /\ Len(atCall.rows) > 0
    /\ \E r \in Range(atCall.rows) : r \in Range(df.rows)
    /\ Len(tableRows) = Len(atCall.rows) + MaxRows

----------------------------------------------------------------------------
(* C15 *)

\* the statements i+1..j are all ADD COLUMN statements: j belongs to the
\* synchronisation that the DESCRIBE TABLE at i started
AddRun(i, j) == i < j /\ \A k \in (i + 1)..j : log[k].op = "addcol"

\* position of a column in the dataset
Pos(c) == CHOOSE n \in 1..Len(df.cols) : df.cols[n] = c

\* the synchronisation started at i has visited every dataset column
SyncComplete(i) ==
    /\ pc \notin {"sync", "addcol"} \/ \E k \in Idx : k > i /\ log[k].op # "addcol"
    /\ \A k \in Idx : AddRun(i, k) => log[k].code = 0

\* C15: schema synchronisation reads the remote column list once, then issues
\* one ADD COLUMN per dataset column absent from that list, in dataset order
\* and typed by the type mapper, and none for a column that is present; when
\* every statement succeeds the schema holds every dataset column and every
\* column it had before.
C15_AddsExactlyMissing ==
    \A i \in Idx :
        Was(i, "describe", 0)
        => /\ \A j \in Idx :
                AddRun(i, j)
                => /\ log[j].arg[1] \in Range(df.cols) \ Range(log[i].arg)
                   /\ log[j].arg[2] = pandasToClickhouseType(columnTypeMap, log[j].arg[1],
                                                               Dtype(log[j].arg[1]))
                   /\ log[j].rc = log[i].rc
                   \* dataset order, nothing missing skipped, nothing added twice
                   /\ \A c \in Range(df.cols) \ Range(log[i].arg) :
                        Pos(c) < Pos(log[j].arg[1])
                        <=> \E k \in (i + 1)..(j - 1) : log[k].arg[1] = c
                   /\ \A k \in (i + 1)..(j - 1) : log[k].arg[1] # log[j].arg[1]
           /\ \A j \in Idx : (j > i /\ SameInvocation(i, j)) => log[j].op = "addcol"
           /\ SyncComplete(i)
                => /\ {log[j].arg[1] : j \in {k \in Idx : AddRun(i, k)}}
                        = Range(df.cols) \ Range(log[i].arg)
                   /\ Range(df.cols) \subseteq Range(tableCols)
                   /\ Range(log[i].arg) \subseteq Range(tableCols)

C15_Witness ==
    /\ Done
    /\ result = "true"
    /\ \E i \in Idx :
        /\ Was(i, "describe", 0)
        /\ log[i].arg = <<"date">>
        /\ Was(i + 1, "addcol", 0) /\ log[i + 1].arg[1] = "src"
        /\ Was(i + 2, "addcol", 0) /\ log[i + 2].arg[1] = "val"
    /\ df.cols = <<"src", "date", "val">>
    /\ Range(tableCols) = {"date", "src", "val"}

----------------------------------------------------------------------------
(* C16 *)

Running == pc \notin {"idle", "done"}

\* C16: whatever the statements answer, a call that was started ends: it
\* returns true, returns false or raises. The retry counter is 0 or 1, and it
\* changes only by a recursion, which runs one higher than its caller, or by
\* the start of a new top-level call.
C16_Terminates ==
    /\ [](retryCounter \in {0, 1})
    /\ [](Done => result \in {"true", "false", "raised"})
    /\ [][retryCounter' # retryCounter
            => \/ Running /\ pc' = "list" /\ retryCounter' = retryCounter + 1
               \/ ~Running /\ pc' = "list" /\ retryCounter' = 0]_vars
    /\ Running ~> Done

C16_Witness ==
    /\ Done
    /\ retryCounter = 1
    /\ faults = MaxFaults
    /\ result = "true"
    /\ Cardinality(Issued("list")) = 2

----------------------------------------------------------------------------
(* C17 *)

\* C17: a top-level call performs at most one successful bulk insert; every
\* listing after the first follows a failed listing (through the database
\* recovery) or a failed bulk insert (through the schema synchronisation); the
\* call returns true iff its last statement is a bulk insert that succeeded,
\* so a call that returned false or raised has written none of the batch.
C17_OneSuccessfulInsert ==
    /\ Cardinality({i \in Idx : Was(i, "insert", 0)}) <= 1
    /\ \A i \in Idx : Was(i, "insert", 0) => i = Len(log) /\ Done /\ result = "true"
    /\ \A i \in Issued("list") :
        i > 1 => \E j \in 1..(i - 1) :
                    /\ log[j].code # 0
                    /\ log[j].op \in {"list", "insert"}
                    /\ log[j].rc = log[i].rc - 1
                    /\ \A k \in (j + 1)..(i - 1) :
                        log[k].op \in {"createdb", "describe", "addcol"} /\ log[k].code = 0
    /\ Done => (result = "true" <=> (Len(log) > 0 /\ Was(Len(log), "insert", 0)))
    /\ (Done /\ result # "true")
        => /\ \A i \in Issued("insert") : log[i].code # 0
           /\ \A r \in Range(df.rows) : Count(tableRows, r) <= Count(atCall.rows, r)

C17_Witness ==
    /\ Done
    /\ result = "raised"
    /\ Cardinality(Issued("insert")) = 2
    /\ Len(df.rows) = MaxRows
    /\ Len(atCall.rows) > 0
    /\ \E r \in Range(df.rows) : r \in Range(atCall.rows)

====
